---- MODULE Spec2Model ----
(***************************************************************************)
(* A model of app.py: the Total Adjusted Rating (TAR) computation          *)
(* calculate_tar, the name normaliser clean_player_name, the position      *)
(* averages league_avg, and the "Compare Players" handler of the page.     *)
(*                                                                         *)
(* Floating point.  A float is modelled as a fixed-point number: the       *)
(* integer x stands for x / SCALE, every operation rounds toward zero.     *)
(* The two IEEE special values the code can produce are kept apart from    *)
(* the finite values: NaN (a missing cell, an average over no values,      *)
(* 0/0, inf*0) and Inf (x/0 for x > 0).  The statistics are non-negative,  *)
(* so negative values and -inf do not occur.  Python's builtin min and     *)
(* max are modelled with their argument order, which decides the result    *)
(* when an argument is NaN.                                                *)
(*                                                                         *)
(* Season table.  df is the table calculate_tar has after the merge and    *)
(* the rename (lines 60-85); the download and the join are outside the     *)
(* model.  Both requests of one comparison name the same season, so one    *)
(* table serves both calls.                                                *)
(***************************************************************************)
EXTENDS Integers, Naturals, Sequences, FiniteSets, TLC

VARIABLES
    df,          \* the joined season table built at lines 60-85
    player_a,    \* text input "Player Name" of column A
    player_b,    \* text input "Player Name" of column B
    pc,          \* position of the script in the Compare Players handler
    out_a,       \* outcome of calculate_tar(player_a, year_a)
    out_b,       \* outcome of calculate_tar(player_b, year_b)
    screen,      \* what the handler has written to the page
    name,        \* argument of clean_player_name
    key1,        \* clean_player_name(name)
    key2,        \* clean_player_name(clean_player_name(name))
    npc          \* position of the normaliser run

vars == <<df, player_a, player_b, pc, out_a, out_b, screen, name, key1, key2, npc>>

(***************************************************************************)
(* Bounds                                                                  *)
(***************************************************************************)
MaxRows == 2        \* rows of the season table
MaxStat == 2        \* largest value of a statistic, in whole units
MaxNameLen == 3     \* longest name given to clean_player_name

(***************************************************************************)
(* Fixed-point floats                                                      *)
(***************************************************************************)
SCALE == 10000
NaN == -1
Inf == -2

Unit == SCALE

\* a decimal literal n/100 of the source, e.g. 0.25 is Dec(25)
Dec(n) == (n * SCALE) \div 100

IsNaN(x) == x = NaN
IsFinite(x) == x >= 0

\* a < b on floats: false as soon as one side is NaN
FLt(a, b) ==
    IF a = NaN \/ b = NaN THEN FALSE
    ELSE IF a = Inf THEN FALSE
    ELSE IF b = Inf THEN TRUE
    ELSE a < b

FGt(a, b) == FLt(b, a)

FLe(a, b) ==
    IF a = NaN \/ b = NaN THEN FALSE
    ELSE IF b = Inf THEN TRUE
    ELSE IF a = Inf THEN FALSE
    ELSE a <= b

\* a / b on numpy floats: no exception, x/0 is inf and 0/0 is nan
FDiv(a, b) ==
    IF a = NaN \/ b = NaN THEN NaN
    ELSE IF b = Inf THEN (IF a = Inf THEN NaN ELSE 0)
    ELSE IF a = Inf THEN Inf
    ELSE IF b = 0 THEN (IF a = 0 THEN NaN ELSE Inf)
    ELSE (a * SCALE) \div b

FMul(a, b) ==
    IF a = NaN \/ b = NaN THEN NaN
    ELSE IF a = Inf \/ b = Inf THEN (IF a = 0 \/ b = 0 THEN NaN ELSE Inf)
    ELSE (a * b) \div SCALE

FAdd(a, b) ==
    IF a = NaN \/ b = NaN THEN NaN
    ELSE IF a = Inf \/ b = Inf THEN Inf
    ELSE a + b

\* builtin min(a, b): the first argument unless the second is smaller
PyMin(a, b) == IF FLt(b, a) THEN b ELSE a

\* builtin max(a, b): the first argument unless the second is larger
PyMax(a, b) == IF FGt(b, a) THEN b ELSE a

RECURSIVE ISqrtBetween(_, _, _)
\* the largest r in lo..hi with r*r <= n (lo*lo <= n is given)
ISqrtBetween(n, lo, hi) ==
    IF lo >= hi THEN lo
    ELSE LET mid == (lo + hi + 1) \div 2
         IN IF mid * mid <= n THEN ISqrtBetween(n, mid, hi)
                              ELSE ISqrtBetween(n, lo, mid - 1)

\* math.sqrt on a non-negative float
MathSqrt(x) ==
    IF x = NaN THEN NaN
    ELSE IF x = Inf THEN Inf
    ELSE ISqrtBetween(x * SCALE, 0, 46340)

\* round(x, ndigits) for ndigits in 1..3: half to even, nan and inf unchanged
Round(x, ndigits) ==
    IF ~IsFinite(x) THEN x
    ELSE LET step == IF ndigits = 3 THEN SCALE \div 1000
                     ELSE IF ndigits = 2 THEN SCALE \div 100
                     ELSE SCALE \div 10
             q == x \div step
             r == x % step
         IN IF 2 * r < step THEN q * step
            ELSE IF 2 * r > step THEN (q + 1) * step
            ELSE IF q % 2 = 0 THEN q * step ELSE (q + 1) * step

(***************************************************************************)
(* clean_player_name                                                       *)
(***************************************************************************)
Upper == {"A", "B"}
Lower == {"a", "b"}
Chars == Upper \cup Lower \cup {"'", " "}

\* the characters the pattern [^A-Za-z] leaves in place
IsAsciiLetter(c) == c \in Upper \cup Lower

\* str.lower on one character
ToLower(c) == IF c = "A" THEN "a" ELSE IF c = "B" THEN "b" ELSE c

\* the normaliser without the call of lower()
clean_player_name_keepcase(n) == SelectSeq(n, IsAsciiLetter)

clean_player_name(n) ==
    LET kept == SelectSeq(n, IsAsciiLetter)
    IN [i \in 1..Len(kept) |-> ToLower(kept[i])]

(***************************************************************************)
(* The season table                                                        *)
(***************************************************************************)
Positions == {"PG", "SF", "C"}

\* the statistics calculate_tar reads, under their names after the rename
StatCols == {"MP", "PTS", "AST", "ORB", "DRB", "TOV", "STL", "BLK",
             "TS%", "DRtg", "3PAr", "FTr"}

\* the two columns calculate_tar tolerates the absence of
OptionalCols == {"3PAr", "FTr"}

\* a cell after pd.to_numeric(errors="coerce"): a number or missing
Vals == {NaN} \cup {k * SCALE : k \in 0..MaxStat}

\* the display name of the i-th row; the third spells the key of the first
RowName(i) ==
    IF i = 1 THEN <<"A", "b">>
    ELSE IF i = 2 THEN <<"B", "'", "a">>
    ELSE <<"a", " ", "B">>

\* the names typed into the page: row 1 in another spelling, row 2, nobody
RequestNames == {<<"A", " ", "B">>, <<"b", "a">>, <<"B", "b">>}

\* the statistics of one row when only the columns cs depart from one unit
Vary(cs) ==
    {[c \in StatCols |-> IF c \in cs THEN g[c] ELSE Unit] : g \in [cs -> Vals]}

MakeRow(i, pos, stats) ==
    [c \in {"Player", "Pos_poss"} \cup StatCols |->
        IF c = "Player" THEN RowName(i)
        ELSE IF c = "Pos_poss" THEN pos
        ELSE stats[c]]

\* tables in which one column varies freely, under every position assignment
SingleColumnTables ==
    {[rows |-> [i \in 1..MaxRows |-> MakeRow(i, pos[i], st[i])],
      columns |-> StatCols] :
        pos \in [1..MaxRows -> Positions],
        st \in UNION {[1..MaxRows -> Vary({c})] : c \in StatCols}}

\* tables of one position group in which true shooting, points and assists
\* move together and turnovers move freely
ScenarioTables ==
    {[rows |-> [i \in 1..MaxRows |->
                  MakeRow(i, "PG",
                    [c \in StatCols |->
                        IF c \in {"TS%", "PTS", "AST"} THEN lvl[i]
                        ELSE IF c = "TOV" THEN tov[i]
                        ELSE Unit])],
      columns |-> StatCols] :
        lvl \in [1..MaxRows -> Vals], tov \in [1..MaxRows -> Vals]}

\* tables of the advanced page without its 3PAr or FTr column
MissingColumnTables ==
    {[rows |-> [i \in 1..MaxRows |->
                  MakeRow(i, pos[i],
                    [c \in StatCols |-> IF c \in OptionalCols THEN NaN ELSE Unit])],
      columns |-> StatCols \ gone] :
        pos \in [1..MaxRows -> Positions],
        gone \in (SUBSET OptionalCols) \ {{}}}

Tables == SingleColumnTables \cup ScenarioTables \cup MissingColumnTables

(***************************************************************************)
(* calculate_tar                                                           *)
(***************************************************************************)
RECURSIVE SumSeq(_)
SumSeq(s) == IF s = <<>> THEN 0 ELSE Head(s) + SumSeq(Tail(s))

IsPresent(x) == x # NaN

\* series.mean(skipna=True): the mean of the non-missing cells, nan if none
league_avg(series) ==
    LET present == SelectSeq(series, IsPresent)
    IN IF Len(present) = 0 THEN NaN ELSE SumSeq(present) \div Len(present)

\* df[c] of a sequence of rows
Column(rows, c) == [i \in 1..Len(rows) |-> rows[i][c]]

\* the ADR weights with the guard branch taking the wing weights
ADRWeights_wing(pos) ==
    IF pos \in {"PG", "SG", "SF"}
      THEN [drtg |-> Dec(40), stl |-> Dec(20), drb |-> Dec(25), blk |-> Dec(15)]
    ELSE [drtg |-> Dec(35), stl |-> Dec(10), drb |-> Dec(30), blk |-> Dec(25)]

\* the weights of the ADR sum for a position tag
ADRWeights(pos) ==
    IF pos \in {"PG", "SG"}
      THEN [drtg |-> Dec(45), stl |-> Dec(35), drb |-> Dec(15), blk |-> Dec(5)]
    ELSE IF pos = "SF"
      THEN [drtg |-> Dec(40), stl |-> Dec(20), drb |-> Dec(25), blk |-> Dec(15)]
    ELSE [drtg |-> Dec(35), stl |-> Dec(10), drb |-> Dec(30), blk |-> Dec(25)]

\* the cap of the steal, block and defensive-rebound factors
FactorCap == Dec(160)

ShootingFloor == Dec(85)
ShootingCeiling == Dec(125)

\* the 3PAr / FTr average used when the column is absent
DefaultRateAvg == Dec(20)

\* the factors without the "compress extremes" step
CapFactor_uncapped(f) == f

CapFactor(f) == PyMin(f, FactorCap)

\* the clamp with the arguments of max and min in the other order
ClampShooting_swapped(f) == PyMin(PyMax(f, ShootingFloor), ShootingCeiling)

ClampShooting(f) == PyMax(ShootingFloor, PyMin(f, ShootingCeiling))

\* the turnover factor without the guard on zero turnovers
TovFactor_unguarded(tov_avg, tov) == FDiv(tov_avg, tov)

TovFactor(tov_avg, tov) == IF FGt(tov, 0) THEN FDiv(tov_avg, tov) ELSE Unit

\* the minute factor with the arguments of min in the other order
MinuteFactor_swapped(mp, mp_avg) == PyMin(FDiv(mp, mp_avg), Unit)

MinuteFactor(mp, mp_avg) == PyMin(Unit, FDiv(mp, mp_avg))

\* the AOR sum with the offensive-rebound weight 0.10
WeightedAOR_light(ts, sc, orb, tov, cr) ==
    FAdd(FAdd(FAdd(FAdd(FMul(Dec(25), ts), FMul(Dec(25), sc)),
                   FMul(Dec(10), orb)), FMul(Dec(15), tov)), FMul(Dec(20), cr))

WeightedAOR(ts, sc, orb, tov, cr) ==
    FAdd(FAdd(FAdd(FAdd(FMul(Dec(25), ts), FMul(Dec(25), sc)),
                   FMul(Dec(15), orb)), FMul(Dec(15), tov)), FMul(Dec(20), cr))

WeightedADR(pos, drtg, stl, drb, blk) ==
    LET w == ADRWeights(pos)
    IN IF pos \in {"PG", "SG"}
         THEN FAdd(FAdd(FAdd(FMul(w.drtg, drtg), FMul(w.stl, stl)),
                        FMul(w.drb, drb)), FMul(w.blk, blk))
         ELSE FAdd(FAdd(FAdd(FMul(w.drtg, drtg), FMul(w.drb, drb)),
                        FMul(w.stl, stl)), FMul(w.blk, blk))

NotRun == [status |-> "none"]

PlayerNotFound == [status |-> "error", error |-> "ValueError: player not found"]

\* the first row of rows whose key is k
FirstMatch(rows, k) ==
    rows[CHOOSE i \in 1..Len(rows) :
            /\ clean_player_name(rows[i]["Player"]) = k
            /\ \A j \in 1..(i - 1) : clean_player_name(rows[j]["Player"]) # k]

Rate(cols, p, c) == IF c \in cols THEN p[c] ELSE 0

Rating(rows, cols, p) ==
    LET pos == p["Pos_poss"]
        SamePos(r) == r["Pos_poss"] = pos
        grp == SelectSeq(rows, SamePos)
        avg == [c \in StatCols |->
                  IF c \in cols THEN league_avg(Column(grp, c))
                  ELSE DefaultRateAvg]
        ts_factor == FDiv(p["TS%"], avg["TS%"])
        scoring_factor == FDiv(p["PTS"], avg["PTS"])
        orb_factor == FDiv(p["ORB"], avg["ORB"])
        tov_factor == TovFactor(avg["TOV"], p["TOV"])
        creation_factor == FDiv(p["AST"], avg["AST"])
        shooting_raw == MathSqrt(FMul(FDiv(Rate(cols, p, "3PAr"), avg["3PAr"]),
                                      FDiv(Rate(cols, p, "FTr"), avg["FTr"])))
        shooting_factor == ClampShooting(shooting_raw)
        AOR == FMul(WeightedAOR(ts_factor, scoring_factor, orb_factor,
                                tov_factor, creation_factor), shooting_factor)
        drtg_factor == MathSqrt(FDiv(avg["DRtg"], p["DRtg"]))
        drb_factor == CapFactor(FDiv(p["DRB"], avg["DRB"]))
        stl_factor == CapFactor(FDiv(p["STL"], avg["STL"]))
        blk_factor == CapFactor(FDiv(p["BLK"], avg["BLK"]))
        ADR == WeightedADR(pos, drtg_factor, stl_factor, drb_factor, blk_factor)
        minute_factor == MinuteFactor(p["MP"], avg["MP"])
        TAR == FMul(FMul(AOR, ADR), minute_factor)
    IN [status |-> "ok",
        p |-> p,
        avg |-> avg,
        ts_factor |-> ts_factor,
        scoring_factor |-> scoring_factor,
        orb_factor |-> orb_factor,
        tov_factor |-> tov_factor,
        creation_factor |-> creation_factor,
        shooting_factor |-> shooting_factor,
        drtg_factor |-> drtg_factor,
        drb_factor |-> drb_factor,
        stl_factor |-> stl_factor,
        blk_factor |-> blk_factor,
        minute_factor |-> minute_factor,
        AOR |-> AOR,
        ADR |-> ADR,
        TAR |-> TAR,
        result |-> [AOR |-> Round(AOR, 3),
                    ADR |-> Round(ADR, 3),
                    TAR |-> Round(TAR, 3),
                    MP |-> Round(p["MP"], 1),
                    ShootingFactor |-> Round(shooting_factor, 3)]]

\* the keys of the column Player_clean
CleanKeys(rows) == {clean_player_name(rows[i]["Player"]) : i \in 1..Len(rows)}

\* calculate_tar without the existence check: an unknown name gets the
\* rating of the first row
calculate_tar_unchecked(player, table) ==
    LET player_cleaned == clean_player_name(player)
    IN Rating(table.rows, table.columns,
              IF player_cleaned \in CleanKeys(table.rows)
                THEN FirstMatch(table.rows, player_cleaned)
                ELSE table.rows[1])

calculate_tar(player, table) ==
    LET player_cleaned == clean_player_name(player)
    IN IF player_cleaned \notin CleanKeys(table.rows)
         THEN PlayerNotFound
         ELSE Rating(table.rows, table.columns,
                     FirstMatch(table.rows, player_cleaned))

(***************************************************************************)
(* The page: two inputs and the Compare Players handler                    *)
(***************************************************************************)
Blank == [a |-> FALSE, b |-> FALSE, verdict |-> "", error |-> ""]

Verdict(result_a, result_b) ==
    IF FGt(result_a.TAR, result_b.TAR) THEN "a higher"
    ELSE IF FGt(result_b.TAR, result_a.TAR) THEN "b higher"
    ELSE "evenly matched"

Init ==
    /\ df \in Tables
    /\ player_a = <<>>
    /\ player_b = <<>>
    /\ pc = "idle"
    /\ out_a = NotRun
    /\ out_b = NotRun
    /\ screen = Blank
    /\ name = <<>>
    /\ key1 = <<>>
    /\ key2 = <<>>
    /\ npc = "off"

\* the user fills both inputs and presses the button; the script reruns
Click(pa, pb) ==
    /\ pc \in {"idle", "done"}
    /\ player_a' = pa
    /\ player_b' = pb
    /\ out_a' = NotRun
    /\ out_b' = NotRun
    /\ screen' = Blank
    /\ pc' = "calc_a"
    /\ UNCHANGED <<df, name, key1, key2, npc>>

\* result_a = calculate_tar(player_a, year_a), inside the try block
CalcA ==
    /\ pc = "calc_a"
    /\ out_a' = calculate_tar(player_a, df)
    /\ pc' = IF out_a'.status = "error" THEN "except" ELSE "calc_b"
    /\ UNCHANGED <<df, player_a, player_b, out_b, screen, name, key1, key2, npc>>

\* result_b = calculate_tar(player_b, year_b), inside the same try block
CalcB ==
    /\ pc = "calc_b"
    /\ out_b' = calculate_tar(player_b, df)
    /\ pc' = IF out_b'.status = "error" THEN "except" ELSE "display"
    /\ UNCHANGED <<df, player_a, player_b, out_a, screen, name, key1, key2, npc>>

\* both results are written, then the verdict
Display ==
    /\ pc = "display"
    /\ screen' = [a |-> TRUE, b |-> TRUE,
                  verdict |-> Verdict(out_a.result, out_b.result),
                  error |-> ""]
    /\ pc' = "done"
    /\ UNCHANGED <<df, player_a, player_b, out_a, out_b, name, key1, key2, npc>>

\* except Exception as e: st.error(str(e))
Except ==
    /\ pc = "except"
    /\ screen' = [a |-> FALSE, b |-> FALSE, verdict |-> "",
                  error |-> IF out_a.status = "error" THEN out_a.error
                            ELSE out_b.error]
    /\ pc' = "done"
    /\ UNCHANGED <<df, player_a, player_b, out_a, out_b, name, key1, key2, npc>>

Next ==
    \/ \E pa \in RequestNames, pb \in RequestNames : Click(pa, pb)
    \/ CalcA
    \/ CalcB
    \/ Display
    \/ Except

Spec == Init /\ [][Next]_vars

(***************************************************************************)
(* The normaliser on its own: every name up to MaxNameLen characters       *)
(***************************************************************************)
Names == UNION {[1..n -> Chars] : n \in 0..MaxNameLen}

EmptyTable == [rows |-> <<>>, columns |-> StatCols]

InitName ==
    /\ df = EmptyTable
    /\ player_a = <<>>
    /\ player_b = <<>>
    /\ pc = "off"
    /\ out_a = NotRun
    /\ out_b = NotRun
    /\ screen = Blank
    /\ name \in Names
    /\ key1 = <<>>
    /\ key2 = <<>>
    /\ npc = "start"

Normalize ==
    /\ npc = "start"
    /\ key1' = clean_player_name(name)
    /\ npc' = "once"
    /\ UNCHANGED <<df, player_a, player_b, pc, out_a, out_b, screen, name, key2>>

Renormalize ==
    /\ npc = "once"
    /\ key2' = clean_player_name(key1)
    /\ npc' = "twice"
    /\ UNCHANGED <<df, player_a, player_b, pc, out_a, out_b, screen, name, key1>>

NextName == Normalize \/ Renormalize

SpecName == InitName /\ [][NextName]_vars

(***************************************************************************)
(* Properties                                                              *)
(***************************************************************************)
Returned(o) == o.status = "ok"

HasRow(player) ==
    \E i \in 1..Len(df.rows) :
        clean_player_name(df.rows[i]["Player"]) = clean_player_name(player)

RaisedNotFound(player, o) ==
    (o.status # "none" /\ ~HasRow(player))
        => (o.status = "error" /\ o.error = "ValueError: player not found")

\* C1: a requested name whose normalised key matches no row of the joined
\* table makes calculate_tar raise the not-found error; no rating record is
\* returned for it and none is shown.
C1_PlayerNotFoundRaises ==
    /\ RaisedNotFound(player_a, out_a)
    /\ RaisedNotFound(player_b, out_b)
    /\ (pc = "done" /\ (~HasRow(player_a) \/ ~HasRow(player_b)))
          => (~screen.a /\ ~screen.b /\ screen.error # "")

C1_Witness ==
    /\ pc = "done"
    /\ HasRow(player_a)
    /\ ~HasRow(player_b)
    /\ out_a.status = "ok"
    /\ out_b.status = "error"

BaselinesUsable(o) == \A c \in StatCols : o.avg[c] # NaN /\ o.avg[c] # 0

FiniteRecord(o) ==
    /\ IsFinite(o.result.AOR) /\ IsFinite(o.result.ADR) /\ IsFinite(o.result.TAR)
    /\ IsFinite(o.AOR) /\ IsFinite(o.ADR) /\ IsFinite(o.TAR)

\* C2: calculate_tar returns a record only when every position baseline is
\* defined and non-zero, and the returned AOR, ADR and TAR are never
\* infinity or NaN (otherwise it ends in a computation error).
C2_BaselineErrorsSurface ==
    /\ Returned(out_a) => (BaselinesUsable(out_a) /\ FiniteRecord(out_a))
    /\ Returned(out_b) => (BaselinesUsable(out_b) /\ FiniteRecord(out_b))

WouldReturn(player) == Returned(calculate_tar(player, df))

\* C3: when the handler has finished and exactly one of the two requests
\* failed, the other request has been computed and its result is displayed.
C3_ErrorsArePerRequest ==
    pc = "done" =>
        /\ (~WouldReturn(player_a) /\ WouldReturn(player_b))
              => (Returned(out_b) /\ screen.b /\ screen.error # "")
        /\ (WouldReturn(player_a) /\ ~WouldReturn(player_b))
              => (Returned(out_a) /\ screen.a /\ screen.error # "")

MinutesBounded(o) ==
    /\ IsFinite(o.minute_factor)
    /\ 0 <= o.minute_factor
    /\ o.minute_factor <= SCALE
    /\ ~FGt(o.TAR, FMul(o.AOR, o.ADR))

\* C4: for every returned rating the minutes factor lies in [0, 1] and the
\* unrounded TAR is not greater than the unrounded AOR x ADR.
C4_MinutesFactorBounded ==
    /\ Returned(out_a) => MinutesBounded(out_a)
    /\ Returned(out_b) => MinutesBounded(out_b)

C4_Witness ==
    /\ Returned(out_a)
    /\ out_a.minute_factor > 0
    /\ out_a.minute_factor < SCALE
    /\ IsFinite(out_a.TAR)
    /\ out_a.TAR > 0
    /\ FLt(out_a.TAR, FMul(out_a.AOR, out_a.ADR))

Cap16 == (16 * SCALE) \div 10

Capped(o, factor, c) ==
    LET raw == FDiv(o.p[c], o.avg[c])
    IN /\ ~FGt(factor, Cap16)
       /\ FGt(raw, Cap16) => factor = Cap16
       /\ FLe(raw, Cap16) => factor = raw

AllCapped(o) ==
    /\ Capped(o, o.stl_factor, "STL")
    /\ Capped(o, o.blk_factor, "BLK")
    /\ Capped(o, o.drb_factor, "DRB")

\* C5: the steal, block and defensive-rebound factors never exceed 1.6; a
\* raw ratio above 1.6 yields exactly 1.6 and a raw ratio at or below 1.6
\* is passed through unchanged.
C5_DefensiveFactorsCapped ==
    /\ Returned(out_a) => AllCapped(out_a)
    /\ Returned(out_b) => AllCapped(out_b)

C5_Witness ==
    /\ Returned(out_a)
    /\ FGt(FDiv(out_a.p["STL"], out_a.avg["STL"]), Cap16)
    /\ out_a.stl_factor = Cap16
    /\ Returned(out_b)
    /\ FLt(FDiv(out_b.p["STL"], out_b.avg["STL"]), SCALE)
    /\ out_b.stl_factor = FDiv(out_b.p["STL"], out_b.avg["STL"])

InShootingRange(x) == IsFinite(x) /\ (85 * SCALE) \div 100 <= x /\ x <= (125 * SCALE) \div 100

\* C6: the shooting multiplier, as used in AOR and as returned in
\* ShootingFactor, lies in [0.85, 1.25] for every player and baseline,
\* including zero rates and zero or undefined position averages.
C6_ShootingFactorClamped ==
    /\ Returned(out_a) => (/\ InShootingRange(out_a.shooting_factor)
                           /\ InShootingRange(out_a.result.ShootingFactor))
    /\ Returned(out_b) => (/\ InShootingRange(out_b.shooting_factor)
                           /\ InShootingRange(out_b.result.ShootingFactor))

C6_Witness ==
    /\ Returned(out_a)
    /\ out_a.avg["3PAr"] = NaN
    /\ InShootingRange(out_a.shooting_factor)
    /\ Returned(out_b)
    /\ out_b.avg["3PAr"] = 0

TurnoverRule(o) ==
    /\ o.p["TOV"] = 0 => o.tov_factor = SCALE
    /\ (IsFinite(o.p["TOV"]) /\ o.p["TOV"] > 0)
          => o.tov_factor = FDiv(o.avg["TOV"], o.p["TOV"])

\* C7: the turnover factor is exactly 1.0 when the player's turnovers are 0,
\* whatever the position average; with positive turnovers it is the position
\* average divided by the player's turnovers.
C7_TurnoverFactor ==
    /\ Returned(out_a) => TurnoverRule(out_a)
    /\ Returned(out_b) => TurnoverRule(out_b)

C7_Witness ==
    /\ Returned(out_a)
    /\ out_a.p["TOV"] = 0
    /\ IsFinite(out_a.avg["TOV"])
    /\ out_a.avg["TOV"] > 0
    /\ out_a.avg["TOV"] # SCALE
    /\ out_a.tov_factor = SCALE
    /\ Returned(out_b)
    /\ IsFinite(out_b.p["TOV"])
    /\ out_b.p["TOV"] > 0
    /\ out_b.tov_factor # SCALE


RECURSIVE SameLetters(_, _)
\* the ASCII letters of m and n are the same up to case, in the same order
SameLetters(m, n) ==
    IF m # <<>> /\ Head(m) \notin {"A", "a", "B", "b"} THEN SameLetters(Tail(m), n)
    ELSE IF n # <<>> /\ Head(n) \notin {"A", "a", "B", "b"} THEN SameLetters(m, Tail(n))
    ELSE IF m = <<>> \/ n = <<>> THEN m = n
    ELSE /\ \/ Head(m) = Head(n)
            \/ {Head(m), Head(n)} = {"A", "a"}
            \/ {Head(m), Head(n)} = {"B", "b"}
         /\ SameLetters(Tail(m), Tail(n))

\* C8: clean_player_name applied to its own output returns it unchanged; the
\* key holds lowercase ASCII letters only; every name with the same letters
\* up to case and to non-letter characters gets the same key.
C8_NormalizerIdempotent ==
    /\ npc = "twice" => key2 = key1
    /\ npc \in {"once", "twice"} =>
          /\ \A i \in 1..Len(key1) : key1[i] \in {"a", "b"}
          /\ \A other \in Names :
                SameLetters(name, other) => clean_player_name(other) = key1

C8_Witness ==
    /\ npc = "twice"
    /\ Len(name) = 3
    /\ Len(key1) = 2
    /\ \E i \in 1..Len(name) : name[i] \in {"A", "B"}
    /\ key2 = key1

IsRatio(o, c, num, den) ==
    /\ IsFinite(o.p[c]) /\ IsFinite(o.avg[c]) /\ o.avg[c] > 0
    /\ den * o.p[c] = num * o.avg[c]

ShootingNeutral(o) ==
    /\ {"3PAr", "FTr"} \subseteq df.columns
    /\ IsRatio(o, "3PAr", 1, 1)
    /\ IsRatio(o, "FTr", 1, 1)

NeutralPlayer(o) ==
    /\ \A c \in {"TS%", "PTS", "ORB", "AST", "TOV"} : IsRatio(o, c, 1, 1)
    /\ ShootingNeutral(o)

DoublePlayer(o) ==
    /\ \A c \in {"TS%", "PTS", "AST"} : IsRatio(o, c, 2, 1)
    /\ o.p["TOV"] = 0
    /\ IsRatio(o, "ORB", 1, 1)
    /\ ShootingNeutral(o)

AORScenario(o, other) ==
    /\ NeutralPlayer(o) =>
          /\ o.AOR = FMul(o.shooting_factor, SCALE)
          /\ o.AOR = SCALE
    /\ DoublePlayer(o) =>
          /\ FGt(o.AOR, FMul(o.shooting_factor, SCALE))
          /\ (Returned(other) /\ NeutralPlayer(other)) => FGt(o.AOR, other.AOR)

\* C9: a neutral player (every offensive input equal to the position
\* average, turnovers non-zero, shooting ratios 1.0) has unrounded AOR equal
\* to the shooting multiplier x 1.0; a player with double the average
\* points, assists and true shooting and zero turnovers, other inputs equal,
\* has a strictly greater AOR.
C9_NeutralAndDoubleAOR ==
    /\ Returned(out_a) => AORScenario(out_a, out_b)
    /\ Returned(out_b) => AORScenario(out_b, out_a)

C9_Witness ==
    /\ Returned(out_a)
    /\ DoublePlayer(out_a)
    /\ FGt(out_a.AOR, SCALE)
    /\ Returned(out_b)
    /\ ~DoublePlayer(out_b)

IsGuard(o) == o.p["Pos_poss"] \in {"PG", "SG"}

SumWith(o, wdrtg, wstl, wdrb, wblk) ==
    FAdd(FAdd(FAdd(FMul(wdrtg, o.drtg_factor), FMul(wstl, o.stl_factor)),
              FMul(wdrb, o.drb_factor)), FMul(wblk, o.blk_factor))

GuardWeightsAsClaimed(o) ==
    LET w == ADRWeights(o.p["Pos_poss"])
    IN /\ (45 * SCALE) \div 100 <= w.drtg /\ w.drtg <= (55 * SCALE) \div 100
       /\ w.stl = (35 * SCALE) \div 100
       /\ w.drb + w.blk <= (15 * SCALE) \div 100
       /\ w.drtg > w.stl /\ w.stl > w.drb /\ w.stl > w.blk
       /\ o.ADR = SumWith(o, w.drtg, w.stl, w.drb, w.blk)

\* C10 as first stated: for a PG or SG, ADR is the weighted sum with the
\* defensive-rating weight in 0.45-0.55 (largest), the steal weight 0.35
\* (next), and the rebound and block weights together at most 0.15.
C10_GuardWeightsOriginal ==
    /\ (Returned(out_a) /\ IsGuard(out_a)) => GuardWeightsAsClaimed(out_a)
    /\ (Returned(out_b) /\ IsGuard(out_b)) => GuardWeightsAsClaimed(out_b)

GuardSum(o) ==
    o.ADR = SumWith(o, (45 * SCALE) \div 100, (35 * SCALE) \div 100,
                       (15 * SCALE) \div 100, (5 * SCALE) \div 100)

\* C10 as amended: for a PG or SG, ADR is the weighted sum with weights 0.45
\* on the defensive-rating factor (largest), 0.35 on the steal factor (next),
\* 0.15 on the rebound factor and 0.05 on the block factor, the last two
\* together 0.20.
C10_GuardWeights ==
    /\ (Returned(out_a) /\ IsGuard(out_a)) => GuardSum(out_a)
    /\ (Returned(out_b) /\ IsGuard(out_b)) => GuardSum(out_b)

C10_Witness ==
    /\ Returned(out_a)
    /\ IsGuard(out_a)
    /\ IsFinite(out_a.ADR)
    /\ out_a.blk_factor = Cap16
    /\ out_a.drb_factor = SCALE
    /\ Returned(out_b)
    /\ IsGuard(out_b)
    /\ out_b.blk_factor = 0

====
